---- MODULE Spec2Model ----
(***************************************************************************)
(* A model of omgtools/basics/spline_extra.py: the B-spline basis and      *)
(* coefficient transformations (knot insertion, crop, extrapolate,         *)
(* shift-over-knot, shift-first-knot, concatenation) and the symbolic-     *)
(* capable evaluator evalspline.                                           *)
(*                                                                         *)
(* Numbers are exact rationals <<numerator, denominator>> in lowest terms  *)
(* with a positive denominator; the code's float64 arithmetic is modelled  *)
(* by exact arithmetic.  Python sequences are 0-based: At(s, i) reads the  *)
(* element the code writes s[i], Neg(s, i) the element it writes s[-i].    *)
(* A matrix is a record [r, c, e]: r rows, c columns, e[i][j] its entries  *)
(* (0-based), so that a matrix without rows still has a column count.      *)
(***************************************************************************)
EXTENDS Integers, Sequences, FiniteSets, TLC

VARIABLES basis,     \* the Basis the builders are applied to: [knots, degree]
          segs,      \* the segment groups and durations concat_splines is applied to
          call,      \* the operation applied and its arguments
          ret        \* what the operation returned (or the error it raised)

vars == <<basis, segs, call, ret>>

(* ------------------------------ bounds --------------------------------- *)
MaxDegree == 2      \* degrees 1..MaxDegree
MaxKnot == 3        \* knot values are the integers 0..MaxKnot
MaxInterior == 1    \* a knot vector has 2*(degree+1) .. 2*(degree+1)+MaxInterior entries
PointDen == 2       \* points, inserted knots and crop bounds are multiples of 1/PointDen
MaxInsert == 1      \* knots_to_insert holds 1..MaxInsert values
MaxExtra == 1       \* t_extra is a positive multiple of 1/PointDen up to MaxExtra
SegDen == 3         \* a segment's interior knot is a multiple of 1/SegDen in (0, 1)
MaxSegments == 2    \* concat_splines gets 1..MaxSegments segment groups
MaxTime == 2        \* segment durations are 1..MaxTime

(* ----------------------------- rationals ------------------------------- *)
Abs(n) == IF n < 0 THEN -n ELSE n

RECURSIVE GCD(_, _)
GCD(a, b) == IF b = 0 THEN a ELSE GCD(b, a % b)

Rat(n, d) ==
    LET g == GCD(Abs(n), Abs(d))
        s == IF d < 0 THEN -1 ELSE 1
    IN  <<(s * n) \div g, (s * d) \div g>>

R(n) == <<n, 1>>
Zero == <<0, 1>>
One == <<1, 1>>
NaN == <<0, 0>>     \* float64 nan: the result of 0*inf or inf-inf
RAdd(a, b) ==
    IF a[1] = 0 THEN b ELSE IF b[1] = 0 THEN a
    ELSE IF a[2] = 1 /\ b[2] = 1 THEN <<a[1] + b[1], 1>>
    ELSE Rat(a[1] * b[2] + b[1] * a[2], a[2] * b[2])
RSub(a, b) ==
    IF b[1] = 0 THEN a
    ELSE IF a[2] = 1 /\ b[2] = 1 THEN <<a[1] - b[1], 1>>
    ELSE Rat(a[1] * b[2] - b[1] * a[2], a[2] * b[2])
RMul(a, b) ==
    IF a[1] = 0 \/ b[1] = 0 THEN <<0, 1>>
    ELSE IF a[2] = 1 /\ b[2] = 1 THEN <<a[1] * b[1], 1>>
    ELSE Rat(a[1] * b[1], a[2] * b[2])
RDiv(a, b) == Rat(a[1] * b[2], a[2] * b[1])
RNeg(a) == <<-a[1], a[2]>>
RLt(a, b) == a[1] * b[2] < b[1] * a[2]
RLe(a, b) == a[1] * b[2] <= b[1] * a[2]
RAbs(a) == <<Abs(a[1]), a[2]>>

(* ------------------------- Python sequences ---------------------------- *)
At(s, i) == s[i + 1]
Neg(s, i) == s[Len(s) + 1 - i]
Rep(v, n) == [i \in 1..n |-> v]                  \* [v]*n, empty for n <= 0
PyIdx(i, n) == IF i < 0 THEN (IF i + n < 0 THEN 0 ELSE i + n) ELSE (IF i > n THEN n ELSE i)
Slice(s, lo, hi) == SubSeq(s, PyIdx(lo, Len(s)) + 1, PyIdx(hi, Len(s)))   \* s[lo:hi]
RSum(f, lo, hi) ==
    LET RECURSIVE Go(_)
        Go(i) == IF i > hi THEN Zero ELSE RAdd(f[i], Go(i + 1))
    IN  Go(lo)
Count(s, v) == Cardinality({i \in 1..Len(s) : s[i] = v})   \* len(np.where(s == v)[0])

(* ------------------------------ matrices ------------------------------- *)
Mat(r, c, F(_, _)) == [r |-> r, c |-> c, e |-> [i \in 0..(r - 1) |-> [j \in 0..(c - 1) |-> F(i, j)]]]
EyeEntry(i, j) == IF i = j THEN One ELSE Zero
Eye(n) == Mat(n, n, EyeEntry)
MatMul(A, B) ==
    LET P(i, j) == RSum([k \in 0..(A.c - 1) |-> RMul(A.e[i][k], B.e[k][j])], 0, A.c - 1)
    IN  Mat(A.r, B.c, P)
MatVec(A, v) ==
    [i \in 1..A.r |-> RSum([k \in 0..(A.c - 1) |-> RMul(A.e[i - 1][k], At(v, k))], 0, A.c - 1)]
Rows(A, lo, hi) ==                                \* A[lo:hi, :]
    LET l == PyIdx(lo, A.r)
        h == PyIdx(hi, A.r)
        P(i, j) == A.e[l + i][j]
    IN  Mat(IF h > l THEN h - l ELSE 0, A.c, P)
NoMat == [r |-> 0, c |-> 0, e |-> <<>>]

(* ------------------------------- Basis --------------------------------- *)
BasisLen(knots, degree) == Len(knots) - degree - 1

(* a variant of Indicator with every order-0 interval closed on both sides *)
Indicator_closed(k, degree, x, i) ==
    IF RLe(At(k, i), x) /\ RLe(x, At(k, i + 1)) THEN One ELSE Zero

(* evalspline, lines 33-49: the Cox-de Boor table, entry basis[d][i] at x *)
Indicator(k, degree, x, i) ==
    IF i < degree + 1 /\ At(k, 0) = At(k, i)
    THEN IF RLe(At(k, i), x) /\ RLe(x, At(k, i + 1)) THEN One ELSE Zero
    ELSE IF RLt(At(k, i), x) /\ RLe(x, At(k, i + 1)) THEN One ELSE Zero

RECURSIVE BasisFun(_, _, _, _, _)
BasisFun(k, degree, x, d, i) ==
    IF d = 0 THEN Indicator(k, degree, x, i)
    ELSE LET bottom1 == RSub(At(k, i + d), At(k, i))
             bottom2 == RSub(At(k, i + d + 1), At(k, i + 1))
             b1 == IF bottom1 # Zero
                   THEN RDiv(RMul(RSub(x, At(k, i)), BasisFun(k, degree, x, d - 1, i)), bottom1)
                   ELSE Zero
             b2 == IF bottom2 # Zero
                   THEN RDiv(RMul(RSub(At(k, i + d + 1), x), BasisFun(k, degree, x, d - 1, i + 1)), bottom2)
                   ELSE Zero
         IN  RAdd(b1, b2)

evalspline(knots, degree, cfs, x) ==
    LET N == BasisLen(knots, degree)
    IN  RSum([l \in 0..(N - 1) |-> RMul(At(cfs, l), BasisFun(knots, degree, x, degree, l))], 0, N - 1)

(* --------------------------- knot insertion ---------------------------- *)
RECURSIVE sorted(_, _)
sorted(knots, knot) ==                            \* sorted(knots + [knot])
    IF knots = <<>> THEN <<knot>>
    ELSE IF RLt(knot, Head(knots)) THEN <<knot>> \o knots
    ELSE <<Head(knots)>> \o sorted(Tail(knots), knot)

InsertWeight(knots, degree, knot, j) ==
    IF RLe(knot, At(knots, j)) THEN Zero
    ELSE IF RLt(At(knots, j), knot) /\ RLt(knot, At(knots, j + degree + 1 - 1))
         THEN RDiv(RSub(knot, At(knots, j)), RSub(At(knots, j + degree + 1 - 1), At(knots, j)))
         ELSE One

InsertStep(knots, degree, N, knot) ==
    LET P(j, c) == IF j # 0 /\ c = j - 1 THEN RSub(One, InsertWeight(knots, degree, knot, j))
                   ELSE IF j # N /\ c = j THEN InsertWeight(knots, degree, knot, j)
                   ELSE Zero
    IN  Mat(N + 1, N, P)

RECURSIVE InsertLoop(_, _, _, _, _)
InsertLoop(T, N, knots, degree, todo) ==
    IF todo = <<>> THEN [T |-> T, knots |-> knots]
    ELSE InsertLoop(MatMul(InsertStep(knots, degree, N, Head(todo)), T), N + 1,
                    sorted(knots, Head(todo)), degree, Tail(todo))

knot_insertion_T(knots, degree, knots_to_insert) ==
    InsertLoop(Eye(BasisLen(knots, degree)), BasisLen(knots, degree), knots, degree, knots_to_insert)

(* -------------------------------- crop --------------------------------- *)
searchsorted(a, v, side) ==
    IF side = "left" THEN Cardinality({i \in 1..Len(a) : RLt(a[i], v)})
    ELSE Cardinality({i \in 1..Len(a) : RLe(a[i], v)})

(* a variant of crop_T that searches min_value from the right *)
crop_T_right(knots, degree, min_value, max_value) ==
    LET n_min == Count(knots, min_value)
        n_max == Count(knots, max_value)
        min_knots == Rep(min_value, degree + 1 - n_min)
        max_knots == Rep(max_value, degree + 1 - n_max)
        ins == knot_insertion_T(knots, degree, min_knots \o max_knots)
        jmin == searchsorted(ins.knots, min_value, "right")
        jmax == searchsorted(ins.knots, max_value, "right")
    IN  [T |-> Rows(ins.T, jmin, jmax - degree - 1), knots |-> Slice(ins.knots, jmin, jmax)]

(* a variant of crop_T that slices the rows jmin..jmax-degree *)
crop_T_rows(knots, degree, min_value, max_value) ==
    LET n_min == Count(knots, min_value)
        n_max == Count(knots, max_value)
        min_knots == Rep(min_value, degree + 1 - n_min)
        max_knots == Rep(max_value, degree + 1 - n_max)
        ins == knot_insertion_T(knots, degree, min_knots \o max_knots)
        jmin == searchsorted(ins.knots, min_value, "left")
        jmax == searchsorted(ins.knots, max_value, "right")
    IN  [T |-> Rows(ins.T, jmin, jmax - degree), knots |-> Slice(ins.knots, jmin, jmax)]

crop_T(knots, degree, min_value, max_value) ==
    LET n_min == Count(knots, min_value)
        n_max == Count(knots, max_value)
        min_knots == Rep(min_value, degree + 1 - n_min)
        max_knots == Rep(max_value, degree + 1 - n_max)
        ins == knot_insertion_T(knots, degree, min_knots \o max_knots)
        jmin == searchsorted(ins.knots, min_value, "left")
        jmax == searchsorted(ins.knots, max_value, "right")
    IN  [T |-> Rows(ins.T, jmin, jmax - degree - 1), knots |-> Slice(ins.knots, jmin, jmax)]

(* ----------------------------- extrapolate ----------------------------- *)
(* BSplineBasis.greville and BSplineBasis.eval_basis belong to the spline   *)
(* module; eval_basis is the recursion of evalspline (BasisFun above).      *)
greville(knots, degree) ==
    [k \in 1..BasisLen(knots, degree) |->
        RDiv(RSum([q \in 1..degree |-> At(knots, k - 1 + q)], 1, degree), R(degree))]

(* np.linalg.solve(A, B): the exact solution, LinAlgError when A is singular *)
Minor(M, i0, j0) ==
    LET P(i, j) == M.e[IF i >= i0 THEN i + 1 ELSE i][IF j >= j0 THEN j + 1 ELSE j]
    IN  Mat(M.r - 1, M.c - 1, P)

RECURSIVE Det(_)
Det(M) ==
    IF M.r = 0 THEN One
    ELSE IF M.r = 1 THEN M.e[0][0]
    ELSE RSum([j \in 0..(M.c - 1) |->
                 IF M.e[0][j] = Zero THEN Zero
                 ELSE RMul(IF j % 2 = 0 THEN M.e[0][j] ELSE RNeg(M.e[0][j]), Det(Minor(M, 0, j)))],
              0, M.c - 1)

ReplaceCol(A, c, B, bc) ==
    LET P(i, j) == IF j = c THEN B.e[i][bc] ELSE A.e[i][j]
    IN  Mat(A.r, A.c, P)

Solve(A, B) ==
    LET d == Det(A)
        P(i, j) == RDiv(Det(ReplaceCol(A, i, B, j)), d)
    IN  Mat(A.r, B.c, P)

(* line 161, _T[abs(_T) < 1e-10] = 0.: 1e-10 is 1/(TolRoot*TolRoot) *)
TolRoot == 100000
ZeroSmall(x) ==
    IF x[2] = 0 THEN x        \* nan compares false: kept
    ELSE IF ((x[2] - 1) \div TolRoot) \div TolRoot >= Abs(x[1]) THEN Zero ELSE x

(* lines 118-120: the search of the default m; reading before the first knot raises *)
RECURSIVE DefaultM(_, _, _)
DefaultM(knots, deg, m) ==
    IF deg + 2 + m > Len(knots) THEN [err |-> "IndexError", m |-> m]
    ELSE IF RLe(Neg(knots, deg + 2), Neg(knots, deg + 2 + m)) THEN DefaultM(knots, deg, m + 1)
    ELSE [err |-> "none", m |-> m]

(* lines 144-153: A1 (kn = knots2, base = N+m) or B1 (kn = knots, base = N) after step i *)
DerivStep(kn, deg, base, i) ==
    LET P(j, c) ==
            LET den == RSub(At(kn, j + base), At(kn, j + base - deg - 1 + i))
            IN  IF c = j THEN RNeg(RDiv(R(deg + 1 - i), den))
                ELSE IF c = j + 1 THEN RDiv(R(deg + 1 - i), den)
                ELSE Zero
    IN  Mat(deg + 1 - i, deg + 1 - i + 1, P)

RECURSIVE DerivMat(_, _, _, _)
DerivMat(kn, deg, base, i) ==
    IF i = 0 THEN Eye(deg + 1)
    ELSE MatMul(DerivStep(kn, deg, base, i), DerivMat(kn, deg, base, i - 1))

(* a difference of knots that lines 149-152 divide by is zero: float64 gives inf *)
DivByZero(kn, deg, base) ==
    \E i \in 1..deg : \E j \in 0..(deg - i) :
        At(kn, j + base) = At(kn, j + base - deg - 1 + i)

extrapolate_knots(knots, deg, t_extra, m) ==
    Slice(knots, 0, -deg - 1) \o Rep(Neg(knots, deg + 1), m)
        \o Rep(RAdd(Neg(knots, 1), t_extra), deg + 1)

(* lines 124-158: the system A*_T = B for the last deg+1 coefficients *)
extrapolate_A(knots, knots2, deg, N, m) ==
    LET eval_points == Slice(greville(knots, deg), -(deg + 1 - m), N)
        P(i, c) ==
            IF m < deg + 1 /\ i < deg + 1 - m
            THEN IF c < deg + 1 - m
                 THEN BasisFun(knots2, deg, At(eval_points, i), deg, N - deg - 1 + m + c)
                 ELSE Zero
            ELSE IF i = 0 THEN (IF c = 0 THEN One ELSE Zero)
            ELSE DerivMat(knots2, deg, N + m, i).e[0][c]
    IN  Mat(deg + 1, deg + 1, P)

extrapolate_B(knots, knots2, deg, N, m) ==
    LET eval_points == Slice(greville(knots, deg), -(deg + 1 - m), N)
        P(i, c) ==
            IF m < deg + 1 /\ i < deg + 1 - m
            THEN IF c < m
                 THEN RSub(BasisFun(knots, deg, At(eval_points, i), deg, N - deg - 1 + c),
                           BasisFun(knots2, deg, At(eval_points, i), deg, N - deg - 1 + c))
                 ELSE BasisFun(knots, deg, At(eval_points, i), deg, N - deg - 1 + c)
            ELSE IF i = 0 THEN (IF c = deg THEN One ELSE Zero)
            ELSE DerivMat(knots, deg, N, i).e[deg - i][c]
    IN  Mat(deg + 1, deg + 1, P)

(* a variant of extrapolate_assemble without line 163: T stays zero outside the block *)
extrapolate_assemble_zero(N, m, deg, T1) ==
    LET P(i, j) ==
            IF i >= N + m - (deg + 1) /\ j >= N - (deg + 1)
            THEN T1.e[i - (N + m - (deg + 1))][j - (N - (deg + 1))]
            ELSE Zero
    IN  Mat(N + m, N, P)

(* lines 162-164: T = [eye(N); 0] with the last deg+1 rows and columns overwritten by _T *)
extrapolate_assemble(N, m, deg, T1) ==
    LET P(i, j) ==
            IF i >= N + m - (deg + 1) /\ j >= N - (deg + 1)
            THEN T1.e[i - (N + m - (deg + 1))][j - (N - (deg + 1))]
            ELSE IF i < N /\ i = j THEN One ELSE Zero
    IN  Mat(N + m, N, P)

NaNEntry(i, j) == NaN
MapMat(M, F(_)) == LET P(i, j) == F(M.e[i][j]) IN Mat(M.r, M.c, P)

(* extrapolate_T with m given; the outcomes are records [err, T, knots, m].  With a zero *)
(* knot difference A and B hold inf/nan: LAPACK then returns nan or reports singularity. *)
extrapolate_outcomes(knots, deg, t_extra, m) ==
    LET N == BasisLen(knots, deg)
        knots2 == extrapolate_knots(knots, deg, t_extra, m)
        Raise(e) == [err |-> e, T |-> NoMat, knots |-> <<>>, m |-> m]
        Return(T1) == [err |-> "none", T |-> extrapolate_assemble(N, m, deg, T1), knots |-> knots2, m |-> m]
    IN  IF DivByZero(knots, deg, N) \/ DivByZero(knots2, deg, N + m)
        THEN {Raise("LinAlgError"), Return(Mat(deg + 1, deg + 1, NaNEntry))}
        ELSE LET A == extrapolate_A(knots, knots2, deg, N, m)
                 B == extrapolate_B(knots, knots2, deg, N, m)
             IN  IF Det(A) = Zero THEN {Raise("LinAlgError")}
                 ELSE {Return(MapMat(Solve(A, B), ZeroSmall))}

(* extrapolate_T(basis, t_extra, m): m is <<>> for None, <<k>> for a given k *)
extrapolate_T(knots, deg, t_extra, m) ==
    IF m = <<>>
    THEN LET dm == DefaultM(knots, deg, 1)
         IN  IF dm.err # "none" THEN {[err |-> dm.err, T |-> NoMat, knots |-> <<>>, m |-> dm.m]}
             ELSE extrapolate_outcomes(knots, deg, t_extra, dm.m)
    ELSE extrapolate_outcomes(knots, deg, t_extra, m[1])

(* --------------------------- shift over knot --------------------------- *)
(* lines 190-193 for one outcome ex of extrapolate_T.  A slice assignment    *)
(* broadcasts a source with one row and fails on any other shape mismatch.  *)
shiftoverknot_finish(knots, deg, N, n, m, T_crp, ex) ==
    LET Raise(e) == [err |-> e, T |-> NoMat, knots |-> <<>>, m |-> m]
        Rn == N + m - n                      \* rows of T
        tr == PyIdx(N - n, Rn)               \* rows of T[:N-n, :]
        start == PyIdx(-(deg + 1), Rn)       \* first row of T[-(deg+1):, :]
        T_extr == ex.T
        P(i, j) ==
            IF i >= start /\ j >= N - (deg + 1)
            THEN T_extr.e[T_extr.r - (deg + 1) + (i - start)][j]
            ELSE IF i < tr THEN T_crp.e[IF T_crp.r = 1 THEN 0 ELSE i][j]
            ELSE Zero
        knots2 == Rep(At(knots, deg + n), deg + 1) \o Slice(knots, deg + n + 1, -deg - 1)
                    \o Rep(Neg(knots, deg + 1), m)
                    \o Rep(RAdd(Neg(knots, 1), RSub(Neg(knots, 1), Neg(knots, deg + 2))), deg + 1)
    IN  IF ex.err # "none" THEN Raise(ex.err)
        ELSE IF Rn < 0 THEN Raise("ValueError")
        ELSE IF T_crp.r # tr /\ T_crp.r # 1 THEN Raise("ValueError")
        ELSE IF Rn - start # deg + 1 THEN Raise("ValueError")
        ELSE IF deg + n >= Len(knots) THEN Raise("IndexError")
        ELSE [err |-> "none", T |-> Mat(Rn, N, P), knots |-> knots2, m |-> m]

shiftoverknot_T(knots, deg) ==
    LET N == BasisLen(knots, deg)
        n == Count(knots, At(knots, deg + 1))
        dm == DefaultM(knots, deg, 1)
    IN  IF dm.err # "none" THEN {[err |-> dm.err, T |-> NoMat, knots |-> <<>>, m |-> dm.m]}
        ELSE LET T_crp == crop_T(knots, deg, At(knots, deg + 1), Neg(knots, 1)).T
             IN  {shiftoverknot_finish(knots, deg, N, n, dm.m, T_crp, ex) :
                    ex \in extrapolate_T(knots, deg, RSub(Neg(knots, 1), Neg(knots, deg + 2)), <<>>)}

(* --------------------------- shift first knot -------------------------- *)
(* lines 237-245: the blending matrix _t of stage k *)
ShiftStage(knots, deg, t_shift, k) ==
    LET P(j, c) ==
            IF j >= deg + 1 THEN (IF c = j - 1 THEN One ELSE Zero)
            ELSE IF j <= k THEN (IF c = j THEN One ELSE Zero)
            ELSE IF c = j - 1
                 THEN RDiv(RSub(At(knots, j + deg - k), t_shift), RSub(At(knots, j + deg - k), At(knots, j)))
            ELSE IF c = j
                 THEN RDiv(RSub(t_shift, At(knots, j)), RSub(At(knots, j + deg - k), At(knots, j)))
            ELSE Zero
    IN  Mat(deg + 1 + k + 1, deg + 1 + k, P)

RECURSIVE ShiftProduct(_, _, _, _)
ShiftProduct(knots, deg, t_shift, k) ==          \* _T after stage k
    IF k < 0 THEN Eye(deg + 1)
    ELSE MatMul(ShiftStage(knots, deg, t_shift, k), ShiftProduct(knots, deg, t_shift, k - 1))

ShiftDivByZero(knots, deg) ==
    \E k \in 0..deg : \E j \in (k + 1)..deg : At(knots, j + deg - k) = At(knots, j)

(* lines 247-248: T = eye(N) with T[:deg+1, :deg+1] = _T[deg+1:, :] *)
shiftfirstknot_forward(knots, deg, t_shift) ==
    LET N == BasisLen(knots, deg)
        T1 == ShiftProduct(knots, deg, t_shift, deg)
        P(i, j) == IF i <= deg /\ j <= deg
                   THEN (IF ShiftDivByZero(knots, deg) THEN NaN ELSE T1.e[deg + 1 + i][j])
                   ELSE EyeEntry(i, j)
    IN  Mat(N, N, P)

(* lines 250-255: the inverse by back substitution, rows deg down to 0 *)
RECURSIVE TinvEntry(_, _, _, _)
TinvEntry(T, deg, i, j) ==
    IF i > deg \/ j > deg \/ j < i THEN EyeEntry(i, j)
    ELSE IF j = i THEN RDiv(One, T.e[i][i])
    ELSE RMul(RDiv(R(-1), T.e[i][i]),
              RSum([k \in (i + 1)..(deg + 1) |-> RMul(T.e[i][k], TinvEntry(T, deg, k, j))], i + 1, deg + 1))

shiftfirstknot_inverse(T, deg) ==
    LET NonFinite == \E i \in 0..deg : \E j \in 0..deg : T.e[i][j] = NaN \/ T.e[i][i] = Zero
        P(i, j) == IF i <= deg /\ j <= deg /\ NonFinite THEN NaN ELSE TinvEntry(T, deg, i, j)
    IN  Mat(T.r, T.c, P)

(* shiftfirstknot_T(basis, t_shift, inverse): the sum of line 254 reads column deg+1 *)
shiftfirstknot_T(knots, deg, t_shift, inverse) ==
    LET T == shiftfirstknot_forward(knots, deg, t_shift)
    IN  IF ~inverse THEN [err |-> "none", T |-> T, Tinv |-> NoMat]
        ELSE IF deg >= 1 /\ deg + 1 >= T.c THEN [err |-> "IndexError", T |-> NoMat, Tinv |-> NoMat]
        ELSE [err |-> "none", T |-> T, Tinv |-> shiftfirstknot_inverse(T, deg)]

(* ----------------------------- concatenation --------------------------- *)
Scale(knots, t, off) == [i \in 1..Len(knots) |-> RAdd(RMul(knots[i], t), off)]

(* a variant of concat_dim that drops degree knots of each subsequent segment *)
RECURSIVE concat_dim_degree(_, _, _, _)
concat_dim_degree(segments, segment_times, l, k) ==
    IF k = 1
    THEN [knots |-> Scale(segments[1][l].knots, segment_times[1], Zero),
          degree |-> segments[1][l].degree,
          coeffs |-> segments[1][l].coeffs]
    ELSE LET prev == concat_dim_degree(segments, segment_times, l, k - 1)
             s == segments[k][l]
         IN  [knots |-> prev.knots \o Scale(Slice(s.knots, prev.degree, Len(s.knots)),
                                            segment_times[k], Neg(prev.knots, 1)),
              degree |-> prev.degree,
              coeffs |-> prev.coeffs \o s.coeffs]

(* lines 315-325 for dimension l: knots and coeffs after segments 1..k *)
RECURSIVE concat_dim(_, _, _, _)
concat_dim(segments, segment_times, l, k) ==
    IF k = 1
    THEN [knots |-> Scale(segments[1][l].knots, segment_times[1], Zero),
          degree |-> segments[1][l].degree,
          coeffs |-> segments[1][l].coeffs]
    ELSE LET prev == concat_dim(segments, segment_times, l, k - 1)
             s == segments[k][l]
         IN  [knots |-> prev.knots \o Scale(Slice(s.knots, prev.degree + 1, Len(s.knots)),
                                            segment_times[k], Neg(prev.knots, 1)),
              degree |-> prev.degree,
              coeffs |-> prev.coeffs \o s.coeffs]

(* line 322 adds the integer l to a string: the raise itself fails with TypeError *)
concat_splines(segments, segment_times) ==
    IF \E k \in 2..Len(segments) : \E l \in 1..Len(segments[k]) :
          segments[k][l].degree # segments[1][l].degree
    THEN [err |-> "TypeError", val |-> <<>>]
    ELSE [err |-> "none",
          val |-> [l \in 1..Len(segments[1]) |-> concat_dim(segments, segment_times, l, Len(segments))]]

(* ------------------------------- inputs -------------------------------- *)
NonDecreasing(s) == \A i \in 1..(Len(s) - 1) : RLe(s[i], s[i + 1])

(* every non-decreasing knot vector with at least 2*(degree+1) entries is a Basis *)
KnotVectors(degree) ==
    UNION {{[i \in 1..n |-> R(f[i])] : f \in {g \in [1..n -> 0..MaxKnot] : \A i \in 1..(n - 1) : g[i] <= g[i + 1]}}
           : n \in (2 * (degree + 1))..(2 * (degree + 1) + MaxInterior)}

Bases == UNION {{[knots |-> k, degree |-> d] : k \in KnotVectors(d)} : d \in 1..MaxDegree}

Points(lo, hi) == {Rat(p, PointDen) : p \in (lo * PointDen)..(hi * PointDen)}
DomainPoints(b) == Points(At(b.knots, 0)[1], Neg(b.knots, 1)[1])

CoeffChoices(N) == {[i \in 1..N |-> One], [i \in 1..N |-> R(i)]}

(* the segments of concat_splines: clamped knot vectors on [0, 1] *)
UnitKnots(degree) ==
    {Rep(Zero, degree + 1) \o interior \o Rep(One, degree + 1) :
        interior \in {<<>>} \cup {<<Rat(p, SegDen)>> : p \in 1..(SegDen - 1)}}

UnitCurves ==
    UNION {UNION {{[knots |-> k, degree |-> d, coeffs |-> c] : c \in CoeffChoices(BasisLen(k, d))}
                  : k \in UnitKnots(d)} : d \in 1..MaxDegree}

SegmentInputs ==
    UNION {{[groups |-> g, times |-> t] : g \in [1..K -> [1..1 -> UnitCurves]], t \in [1..K -> {R(q) : q \in 1..MaxTime}]}
           : K \in 1..MaxSegments}

NoBasis == [knots |-> <<>>, degree |-> 0]
NoSegments == [groups |-> <<>>, times |-> <<>>]
NoCall == [op |-> "none"]
NoRet == [err |-> "none", T |-> NoMat, Tinv |-> NoMat, knots |-> <<>>, m |-> 0, val |-> <<>>]

InitBasis ==
    /\ basis \in Bases
    /\ segs = NoSegments
    /\ call = NoCall
    /\ ret = NoRet

InitSegments ==
    /\ basis = NoBasis
    /\ segs \in SegmentInputs
    /\ call = NoCall
    /\ ret = NoRet

Init == InitBasis \/ InitSegments

(* ------------------------------ operations ----------------------------- *)
SeqsUpTo(S, n) == UNION {[1..m -> S] : m \in 1..n}

EvalSpline ==
    /\ call.op = "none" /\ basis # NoBasis
    /\ \E c \in CoeffChoices(BasisLen(basis.knots, basis.degree)), x \in DomainPoints(basis) :
         /\ call' = [op |-> "evalspline", coeffs |-> c, x |-> x]
         /\ ret' = [NoRet EXCEPT !.val = <<evalspline(basis.knots, basis.degree, c, x)>>]
    /\ UNCHANGED <<basis, segs>>

KnotInsertion ==
    /\ call.op = "none" /\ basis # NoBasis
    /\ \E ts \in SeqsUpTo(DomainPoints(basis), MaxInsert) :
         LET out == knot_insertion_T(basis.knots, basis.degree, ts)
         IN  /\ call' = [op |-> "knot_insertion_T", knots_to_insert |-> ts]
             /\ ret' = [NoRet EXCEPT !.T = out.T, !.knots = out.knots]
    /\ UNCHANGED <<basis, segs>>

(* crop_T / crop: the code checks no bound, so every pair of values is accepted *)
CropBounds(b) == Points(At(b.knots, 0)[1] - 1, Neg(b.knots, 1)[1] + 1)

Crop ==
    /\ call.op = "none" /\ basis # NoBasis
    /\ \E min_value \in CropBounds(basis), max_value \in CropBounds(basis) :
         LET out == crop_T(basis.knots, basis.degree, min_value, max_value)
         IN  /\ call' = [op |-> "crop_T", min_value |-> min_value, max_value |-> max_value]
             /\ ret' = [NoRet EXCEPT !.T = out.T, !.knots = out.knots]
    /\ UNCHANGED <<basis, segs>>

Extras == {Rat(p, PointDen) : p \in 1..(MaxExtra * PointDen)}

Extrapolate ==
    /\ call.op = "none" /\ basis # NoBasis
    /\ \E t_extra \in Extras, m \in {<<>>} \cup {<<k>> : k \in 1..(basis.degree + 1)} :
         \E out \in extrapolate_T(basis.knots, basis.degree, t_extra, m) :
             /\ call' = [op |-> "extrapolate_T", t_extra |-> t_extra, m |-> m]
             /\ ret' = [NoRet EXCEPT !.err = out.err, !.T = out.T, !.knots = out.knots, !.m = out.m]
    /\ UNCHANGED <<basis, segs>>

ShiftOverKnot ==
    /\ call.op = "none" /\ basis # NoBasis
    /\ \E out \in shiftoverknot_T(basis.knots, basis.degree) :
         /\ call' = [op |-> "shiftoverknot_T"]
         /\ ret' = [NoRet EXCEPT !.err = out.err, !.T = out.T, !.knots = out.knots, !.m = out.m]
    /\ UNCHANGED <<basis, segs>>

Shifts == {Rat(p, PointDen) : p \in 1..(MaxKnot * PointDen)}

ShiftFirstKnot ==
    /\ call.op = "none" /\ basis # NoBasis
    /\ \E t_shift \in Shifts, inverse \in BOOLEAN :
         LET out == shiftfirstknot_T(basis.knots, basis.degree, t_shift, inverse)
         IN  /\ call' = [op |-> "shiftfirstknot_T", t_shift |-> t_shift, inverse |-> inverse]
             /\ ret' = [NoRet EXCEPT !.err = out.err, !.T = out.T, !.Tinv = out.Tinv]
    /\ UNCHANGED <<basis, segs>>

ConcatSplines ==
    /\ call.op = "none" /\ segs # NoSegments
    /\ LET out == concat_splines(segs.groups, segs.times)
       IN  /\ call' = [op |-> "concat_splines"]
           /\ ret' = [NoRet EXCEPT !.err = out.err, !.val = out.val]
    /\ UNCHANGED <<basis, segs>>

Next ==
    \/ EvalSpline
    \/ KnotInsertion
    \/ Crop
    \/ Extrapolate
    \/ ShiftOverKnot
    \/ ShiftFirstKnot
    \/ ConcatSplines

Spec == Init /\ [][Next]_vars
SpecEval == InitBasis /\ [][EvalSpline]_vars
SpecInsert == InitBasis /\ [][KnotInsertion]_vars
SpecCrop == InitBasis /\ [][Crop]_vars
SpecExtrapolate == InitBasis /\ [][Extrapolate]_vars
SpecShiftOver == InitBasis /\ [][ShiftOverKnot]_vars
SpecShiftFirst == InitBasis /\ [][ShiftFirstKnot]_vars
SpecConcat == InitSegments /\ [][ConcatSplines]_vars
SpecDefaultM == InitBasis /\ [][Extrapolate \/ ShiftOverKnot]_vars
SpecBuilders == InitBasis /\ [][KnotInsertion \/ Crop \/ Extrapolate \/ ShiftOverKnot]_vars

(* ------------------------------ properties ----------------------------- *)
N0 == BasisLen(basis.knots, basis.degree)          \* len(basis) of the basis operated on
AllOnes(N) == [i \in 1..N |-> One]
InDomain(v) == RLe(At(basis.knots, 0), v) /\ RLe(v, Neg(basis.knots, 1))
Finite(M) == \A i \in 0..(M.r - 1), j \in 0..(M.c - 1) : M.e[i][j][2] # 0
IdentityRow(M, i) == \A j \in 0..(M.c - 1) : M.e[i][j] = EyeEntry(i, j)

(* the first and the last degree+1 knots coincide, with a domain of positive length *)
Clamped(knots, degree) ==
    /\ \A i \in 0..degree : At(knots, i) = At(knots, 0) /\ Neg(knots, i + 1) = Neg(knots, 1)
    /\ RLt(At(knots, 0), Neg(knots, 1))

(* a valid clamped knot vector of the degree that spans exactly [lo, hi] *)
ClampedOn(knots, degree, lo, hi) ==
    /\ NonDecreasing(knots)
    /\ Len(knots) >= 2 * (degree + 1)
    /\ \A i \in 0..degree : At(knots, i) = lo /\ Neg(knots, i + 1) = hi
    /\ \A i \in 1..Len(knots) : RLe(lo, knots[i]) /\ RLe(knots[i], hi)

(* C1: knot insertion never changes the represented function: for every     *)
(* coefficient vector c and every x of [knots[0], knots[-1]] the curve on   *)
(* the returned knots with coefficients T*c has the value of the original   *)
C1_InsertionPreservesValue ==
    call.op = "knot_insertion_T" =>
        \A c \in CoeffChoices(N0), x \in DomainPoints(basis) :
            evalspline(ret.knots, basis.degree, MatVec(ret.T, c), x)
                = evalspline(basis.knots, basis.degree, c, x)

(* C2, as stated: for min_value <= max_value within the domain crop_T       *)
(* returns a valid clamped knot vector spanning exactly [min_value, max_value] *)
C2_CropKnotsClamped ==
    (/\ call.op = "crop_T"
     /\ RLe(call.min_value, call.max_value)
     /\ InDomain(call.min_value) /\ InDomain(call.max_value))
        => ClampedOn(ret.knots, basis.degree, call.min_value, call.max_value)

(* C2, amended: for min_value < max_value within the domain crop_T returns  *)
(* a valid clamped knot vector spanning exactly [min_value, max_value]      *)
C2_CropKnotsClampedProper ==
    (/\ call.op = "crop_T"
     /\ RLt(call.min_value, call.max_value)
     /\ InDomain(call.min_value) /\ InDomain(call.max_value))
        => ClampedOn(ret.knots, basis.degree, call.min_value, call.max_value)

(* a crop strictly inside the domain at values that were no knots: both bounds are inserted *)
C2_Witness ==
    /\ call.op = "crop_T"
    /\ RLt(At(basis.knots, 0), call.min_value) /\ RLt(call.min_value, call.max_value)
    /\ RLt(call.max_value, Neg(basis.knots, 1))
    /\ Count(basis.knots, call.min_value) = 0 /\ Count(basis.knots, call.max_value) = 0
    /\ Len(ret.knots) > 2 * (basis.degree + 1)
    /\ ClampedOn(ret.knots, basis.degree, call.min_value, call.max_value)

(* extrapolate_T returned T for an m of 1..degree+1 *)
ExtrapolateReturned ==
    /\ call.op = "extrapolate_T"
    /\ ret.err = "none"
    /\ ret.m \in 1..(basis.degree + 1)

C4_ShiftKeepsDomainLength ==
    (/\ call.op = "shiftoverknot_T"
     /\ Clamped(basis.knots, basis.degree)
     /\ Len(basis.knots) > 2 * (basis.degree + 1)
     /\ RLt(At(basis.knots, 0), At(basis.knots, basis.degree + 1))
     /\ RLt(Neg(basis.knots, basis.degree + 2), Neg(basis.knots, 1)))
        => /\ ret.err = "none"
           /\ At(ret.knots, 0) = At(basis.knots, basis.degree + 1)
           /\ Neg(ret.knots, 1) = RAdd(Neg(basis.knots, 1),
                                       RSub(At(basis.knots, basis.degree + 1), At(basis.knots, 0)))

(* M is upper triangular and the identity outside its leading (degree+1) x (degree+1) block *)
UpperTriangular(M) == \A i \in 0..(M.r - 1), j \in 0..(M.c - 1) : j < i => M.e[i][j] = Zero
IdentityOutsideBlock(M, degree) ==
    \A i \in 0..(M.r - 1), j \in 0..(M.c - 1) : (i > degree \/ j > degree) => M.e[i][j] = EyeEntry(i, j)

(* C5: for a clamped basis and 0 < t_shift < knots[degree+1] - knots[0],    *)
(* shiftfirstknot_T(basis, t_shift, inverse=True) returns T upper triangular, *)
(* the identity outside its leading block, with Tinv*T = T*Tinv = I         *)
C5_ShiftFirstKnotInverse ==
    (/\ call.op = "shiftfirstknot_T" /\ call.inverse
     /\ Clamped(basis.knots, basis.degree)
     /\ RLt(Zero, call.t_shift)
     /\ RLt(call.t_shift, RSub(At(basis.knots, basis.degree + 1), At(basis.knots, 0))))
        => /\ ret.err = "none"
           /\ UpperTriangular(ret.T)
           /\ IdentityOutsideBlock(ret.T, basis.degree)
           /\ MatMul(ret.Tinv, ret.T) = Eye(N0)
           /\ MatMul(ret.T, ret.Tinv) = Eye(N0)

(* the segments of every group have the degree of the first group's curve, per dimension *)
SameDegrees ==
    \A k \in 1..Len(segs.groups) : \A l \in 1..Len(segs.groups[k]) :
        segs.groups[k][l].degree = segs.groups[1][l].degree

RECURSIVE AllCoeffs(_, _)
AllCoeffs(l, k) == IF k = 0 THEN <<>> ELSE AllCoeffs(l, k - 1) \o segs.groups[k][l].coeffs

(* C6: for segments of one degree per dimension, clamped on [0, 1], with    *)
(* positive durations, concat_splines returns per dimension a curve whose   *)
(* knots are non-decreasing, start at 0, end at the sum of the durations    *)
(* and number sum_k len(knots_k) - (K-1)*(degree+1), and whose coefficients *)
(* are the segments' coefficients concatenated, len(knots) - degree - 1 of them *)
C6_ConcatStructure ==
    (call.op = "concat_splines" /\ SameDegrees) =>
        /\ ret.err = "none"
        /\ Len(ret.val) = Len(segs.groups[1])
        /\ \A l \in 1..Len(ret.val) :
            LET K == Len(segs.groups)
                d == segs.groups[1][l].degree
                out == ret.val[l]
                total == RSum([k \in 1..K |-> R(Len(segs.groups[k][l].knots))], 1, K)[1]
            IN  /\ out.degree = d
                /\ NonDecreasing(out.knots)
                /\ At(out.knots, 0) = Zero
                /\ Neg(out.knots, 1) = RSum(segs.times, 1, K)
                /\ Len(out.knots) = total - (K - 1) * (d + 1)
                /\ out.coeffs = AllCoeffs(l, K)
                /\ Len(out.coeffs) = Len(out.knots) - d - 1

(* two segments of one degree with different durations were concatenated *)
C6_Witness ==
    /\ call.op = "concat_splines" /\ SameDegrees /\ ret.err = "none"
    /\ Len(segs.groups) = 2
    /\ segs.times[1] # segs.times[2]
    /\ Len(ret.val[1].knots) = Len(segs.groups[1][1].knots) + Len(segs.groups[2][1].knots)
                                  - (segs.groups[1][1].degree + 1)
    /\ Neg(ret.val[1].knots, 1) = RAdd(segs.times[1], segs.times[2])

(* C7, as stated: for every basis and every x with knots[0] < x < knots[-1] *)
(* the basis functions sum to 1: the curve with all coefficients 1 has value 1 *)
C7_PartitionOfUnity ==
    (/\ call.op = "evalspline"
     /\ call.coeffs = AllOnes(N0)
     /\ RLt(At(basis.knots, 0), call.x) /\ RLt(call.x, Neg(basis.knots, 1)))
        => ret.val = <<One>>

(* C7, amended: for every basis and every x with                            *)
(* knots[degree] < x < knots[-degree-1] the basis functions sum to 1        *)
C7_PartitionOfUnityInside ==
    (/\ call.op = "evalspline"
     /\ call.coeffs = AllOnes(N0)
     /\ RLt(At(basis.knots, basis.degree), call.x)
     /\ RLt(call.x, Neg(basis.knots, basis.degree + 1)))
        => ret.val = <<One>>

(* the sum is 1 at an interior knot of a basis that is not clamped at its left end *)
C7_Witness ==
    /\ call.op = "evalspline"
    /\ call.coeffs = AllOnes(N0)
    /\ RLt(At(basis.knots, 0), At(basis.knots, basis.degree))
    /\ RLt(At(basis.knots, basis.degree), call.x)
    /\ RLt(call.x, Neg(basis.knots, basis.degree + 1))
    /\ Count(basis.knots, call.x) > 0
    /\ ret.val = <<One>>

(* C8: crop_T with min_value < knots[0] or max_value > knots[-1] fails with *)
(* an OutOfDomain error and returns no matrix and no knot vector            *)
C8_CropRejectsOutOfDomain ==
    (/\ call.op = "crop_T"
     /\ (RLt(call.min_value, At(basis.knots, 0)) \/ RLt(Neg(basis.knots, 1), call.max_value)))
        => ret.err = "OutOfDomain" /\ ret.T = NoMat /\ ret.knots = <<>>

(* a builder returned a pair (T, knots') *)
BuilderReturned ==
    /\ call.op \in {"knot_insertion_T", "crop_T", "extrapolate_T", "shiftoverknot_T"}
    /\ ret.err = "none"

(* C9, as stated: whenever a builder returns (T, knots'), T has N columns   *)
(* and len(knots') - degree - 1 rows                                        *)
C9_MatrixFitsKnots ==
    BuilderReturned =>
        ret.T.c = N0 /\ ret.T.r = Len(ret.knots) - basis.degree - 1

(* C9, amended: the same, for crop_T only when min_value <= max_value       *)
C9_MatrixFitsKnotsOrdered ==
    (BuilderReturned /\ (call.op = "crop_T" => RLe(call.min_value, call.max_value))) =>
        ret.T.c = N0 /\ ret.T.r = Len(ret.knots) - basis.degree - 1

(* shiftoverknot_T, which composes crop_T and extrapolate_T, returned a matching pair *)
C9_Witness ==
    /\ BuilderReturned /\ call.op = "shiftoverknot_T"
    /\ Len(ret.knots) >= 2 * (basis.degree + 1)
    /\ ret.T.c = N0 /\ ret.T.r = Len(ret.knots) - basis.degree - 1

(* C10: the search of the default m terminates for every basis without      *)
(* reading outside the knot vector, and leaves in m the number of knots     *)
(* before the final degree+1 knots that equal knots[-degree-2]              *)
C10_DefaultMTerminates ==
    (\/ call.op = "shiftoverknot_T"
     \/ call.op = "extrapolate_T" /\ call.m = <<>>)
        => LET dm == DefaultM(basis.knots, basis.degree, 1)
           IN  /\ dm.err = "none"
               /\ dm.m = Count(Slice(basis.knots, 0, -(basis.degree + 1)),
                               Neg(basis.knots, basis.degree + 2))
====
